---- MODULE Spec2Model ----
(***************************************************************************)
(* Job orchestration and status tracking of the metagenomics pipeline:     *)
(* the UI session (src/ui/app.py), the VM launcher (src/gcp/launcher.py),  *)
(* the job monitor (src/gcp/monitor.py) and the storage handler            *)
(* (src/gcp/storage.py), with the compute and storage gateways and the     *)
(* remote instance as the environment.                                     *)
(***************************************************************************)
EXTENDS Integers, Sequences, FiniteSets, TLC

VARIABLES
    cfg,                    \* config.GCP_PROJECT_ID / GCP_BUCKET_NAME are set
    client,                 \* VMLauncher.client is initialised (not None)
    bucket,                 \* StorageHandler.bucket is initialised (not None)
    now,                    \* the wall clock, in epoch seconds
    current_job_id,         \* MetagenomicsUI.current_job_id
    current_instance_name,  \* MetagenomicsUI.current_instance_name
    job_start_time,         \* MetagenomicsUI.job_start_time
    instances,              \* compute gateway: instance name -> status
    script,                 \* instance name -> the --steps of its startup script
    marker,                 \* object store: jobs with jobs/<id>/status.txt
    log,                    \* object store: jobs/<id>/pipeline.log per job
    inputs,                 \* object store: uploaded inputs/<id>/<name>
    localLog,               \* local files /tmp/<id>_pipeline.log per job
    ret,                    \* what the last operation returned to its caller
    memo,                   \* an earlier poll, kept to compare a later one with
    launches,               \* number of launch calls made so far
    remoteSteps,            \* number of remote steps taken (SpecIdem)
    arg,                    \* the arguments of a direct call of a function
    ran                     \* the commands the startup script has run (SpecScript)

vars == <<cfg, client, bucket, now, current_job_id, current_instance_name,
          job_start_time, instances, script, marker, log, inputs, localLog, ret,
          memo, launches, remoteSteps, arg, ran>>

(***************************************************************************)
(* Bounds of the model.                                                    *)
(***************************************************************************)
MaxRand == 1
MaxTime == 1
MaxLaunches == 2
MaxRemoteSteps == 1

(***************************************************************************)
(* Values.                                                                 *)
(***************************************************************************)
None == "None"
NoJob == <<>>
NoRet == [op |-> "none"]
NoMemo == [op |-> "none"]
NoArg == [fn |-> "none"]
NoFile == [exists |-> FALSE, content |-> <<>>]

\* job_<random>_<epoch>: the random part and the epoch second
JobIds == (0..MaxRand) \X (0..MaxTime)
InstanceName(job_id) == <<"pipeline", job_id>>
InstanceNames == {InstanceName(j) : j \in JobIds}

Absent == "absent"
VmStatuses == {"PROVISIONING", "STAGING", "RUNNING", "STOPPING", "TERMINATED"}

(***************************************************************************)
(* The step catalog and the tracker's marker strings. A line of text is a  *)
(* sequence of words; a pattern without metacharacters matches a text      *)
(* when its words occur contiguously in one of the lines.                  *)
(***************************************************************************)
StepIds == <<"fastqc", "trimmomatic", "megahit", "prodigal", "hmmscan",
             "binning", "checkm">>

step_patterns(step) ==
    CASE step = "fastqc"      -> <<"Running", "FastQC">>
      [] step = "trimmomatic" -> <<"Running", "Trimmomatic">>
      [] step = "megahit"     -> <<"Running", "MEGAHIT">>
      [] step = "prodigal"    -> <<"Running", "Prodigal">>
      [] step = "hmmscan"     -> <<"Running", "HMMscan">>
      [] step = "binning"     -> <<"Running", "MetaBAT2">>
      [] step = "checkm"      -> <<"Running", "CheckM">>

completion_patterns(step) ==
    CASE step = "fastqc"      -> <<"FastQC", "completed">>
      [] step = "trimmomatic" -> <<"Trimmomatic", "completed">>
      [] step = "megahit"     -> <<"MEGAHIT", "completed">>
      [] step = "prodigal"    -> <<"Prodigal", "completed">>
      [] step = "hmmscan"     -> <<"HMMscan", "completed">>
      [] step = "binning"     -> <<"MetaBAT2", "completed">>
      [] step = "checkm"      -> <<"CheckM", "completed">>

LineContains(line, pat) ==
    \E i \in 1..(Len(line) - Len(pat) + 1) :
        \A k \in 1..Len(pat) : line[i + k - 1] = pat[k]

re_search(pat, content) ==
    \E k \in 1..Len(content) : LineContains(content[k], pat)

(***************************************************************************)
(* The object store as the set of its object names.                        *)
(***************************************************************************)
MarkerBlob(job_id) == <<"jobs", job_id, "status.txt">>
LogBlob(job_id) == <<"jobs", job_id, "pipeline.log">>

Objects ==
    {MarkerBlob(j) : j \in marker}
        \cup {LogBlob(j) : j \in {k \in JobIds : log[k].exists}}
        \cup inputs

IsPrefix(p, n) == Len(p) <= Len(n) /\ SubSeq(n, 1, Len(p)) = p

(***************************************************************************)
(* The gateways, as the calls of the code see them. A call either returns  *)
(* a value or raises; `fail' is the environment's choice to make it fail   *)
(* (network, permission, quota).                                           *)
(***************************************************************************)
Returns(v) == [raised |-> FALSE, val |-> v, msg |-> None]
Raises(m) == [raised |-> TRUE, val |-> None, msg |-> m]

\* InstancesClient.get: the instance's status; raises when it does not exist
ClientGet(instance_name, fail) ==
    IF fail THEN Raises("gateway error")
    ELSE IF instances[instance_name] = Absent THEN Raises("not found")
    ELSE Returns(instances[instance_name])

\* Bucket.list_blobs(prefix): the names of the objects under the prefix
BucketListBlobs(prefix, fail) ==
    IF fail THEN Raises("gateway error")
    ELSE Returns({n \in Objects : IsPrefix(prefix, n)})

(***************************************************************************)
(* VMLauncher.get_instance_status and the StorageHandler methods the       *)
(* monitor calls. Each catches every exception of its gateway call.        *)
(***************************************************************************)
get_instance_status(instance_name, fail) ==
    IF ~client THEN Returns(None)
    ELSE LET r == ClientGet(instance_name, fail)
         IN  IF r.raised THEN Returns(None) ELSE Returns(r.val)

list_blobs(prefix, fail) ==
    IF ~bucket THEN Returns({})
    ELSE LET r == BucketListBlobs(prefix, fail)
         IN  IF r.raised THEN Returns({}) ELSE Returns(r.val)

\* download_file(blob_name, local_path): val is the returned flag, file the
\* local file afterwards. dl is "ok", "fail" (raises before anything is
\* written) or "partial" (raises after the local file was opened for writing).
download_file(job_id, local, dl) ==
    IF ~bucket THEN [raised |-> FALSE, val |-> FALSE, file |-> local]
    ELSE IF dl = "fail" THEN [raised |-> FALSE, val |-> FALSE, file |-> local]
    ELSE IF ~log[job_id].exists
         THEN [raised |-> FALSE, val |-> FALSE, file |-> local]
    ELSE IF dl = "partial"
         THEN [raised |-> FALSE, val |-> FALSE,
               file |-> [exists |-> TRUE, content |-> <<>>]]
    ELSE [raised |-> FALSE, val |-> TRUE,
          file |-> [exists |-> TRUE, content |-> log[job_id].content]]

(***************************************************************************)
(* JobMonitor: the log parser, the current step, the aggregate progress.   *)
(* A steps dictionary is the sequence of its entries in insertion order.   *)
(***************************************************************************)
\* a step whose completed marker is found taken as not begun
StepEntryCompletePending(step, content) ==
    IF re_search(step_patterns(step), content)
    THEN IF re_search(completion_patterns(step), content)
         THEN [step |-> step, status |-> "pending", progress |-> 0]
         ELSE [step |-> step, status |-> "running", progress |-> 50]
    ELSE [step |-> step, status |-> "pending", progress |-> 0]

\* a step with its completed marker in the log taken as complete
StepEntryCompletedAlone(step, content) ==
    IF re_search(completion_patterns(step), content)
    THEN [step |-> step, status |-> "complete", progress |-> 100]
    ELSE IF re_search(step_patterns(step), content)
    THEN [step |-> step, status |-> "running", progress |-> 50]
    ELSE [step |-> step, status |-> "pending", progress |-> 0]

StepEntry(step, content) ==
    IF re_search(step_patterns(step), content)
    THEN IF re_search(completion_patterns(step), content)
         THEN [step |-> step, status |-> "complete", progress |-> 100]
         ELSE [step |-> step, status |-> "running", progress |-> 50]
    ELSE [step |-> step, status |-> "pending", progress |-> 0]

\* _parse_pipeline_log(log_file): {} when the file cannot be opened or read
parse_pipeline_log(file, readFail) ==
    IF ~file.exists \/ readFail THEN <<>>
    ELSE [i \in 1..Len(StepIds) |-> StepEntry(StepIds[i], file.content)]

\* the last running step instead of the first
RECURSIVE LastRunning(_, _)
LastRunning(steps, i) ==
    IF i < 1 THEN None
    ELSE IF steps[i].status = "running" THEN steps[i].step
    ELSE LastRunning(steps, i - 1)

get_current_step_last(steps) == LastRunning(steps, Len(steps))

RECURSIVE FirstRunning(_, _)
FirstRunning(steps, i) ==
    IF i > Len(steps) THEN None
    ELSE IF steps[i].status = "running" THEN steps[i].step
    ELSE FirstRunning(steps, i + 1)

get_current_step(steps) == FirstRunning(steps, 1)

CompletedSteps(steps) ==
    Cardinality({i \in 1..Len(steps) : steps[i].status = "complete"})

\* the quotient rounded to the nearest integer instead of truncated
calculate_progress_round(steps) ==
    IF Len(steps) = 0 THEN 0
    ELSE (CompletedSteps(steps) * 200 + Len(steps)) \div (2 * Len(steps))

\* int((completed_steps / total_steps) * 100): the float quotient times 100,
\* truncated. For every total_steps up to 8 the double arithmetic gives the
\* integer quotient of 100 * completed_steps by total_steps.
calculate_progress(steps) ==
    IF Len(steps) = 0 THEN 0
    ELSE (CompletedSteps(steps) * 100) \div Len(steps)

\* a stopped instance reported complete whatever the progress
ResolveStatusTerminatedComplete(vm_status, progress) ==
    IF vm_status = "RUNNING" THEN "running"
    ELSE IF vm_status = "TERMINATED" THEN "complete"
    ELSE IF vm_status = "PROVISIONING" \/ vm_status = "STAGING" THEN "starting"
    ELSE "unknown"

\* an instance that is not found reported as cancelled
ResolveStatusNotFoundCancelled(vm_status, progress) ==
    IF vm_status = "RUNNING" THEN "running"
    ELSE IF vm_status = "TERMINATED"
         THEN IF progress = 100 THEN "complete" ELSE "failed"
    ELSE IF vm_status = "PROVISIONING" \/ vm_status = "STAGING" THEN "starting"
    ELSE IF vm_status = None THEN "cancelled"
    ELSE "unknown"

\* lines 69-78: the aggregate status from the instance status
ResolveStatus(vm_status, progress) ==
    IF vm_status = "RUNNING" THEN "running"
    ELSE IF vm_status = "TERMINATED"
         THEN IF progress = 100 THEN "complete" ELSE "failed"
    ELSE IF vm_status = "PROVISIONING" \/ vm_status = "STAGING" THEN "starting"
    ELSE "unknown"


(***************************************************************************)
(* JobMonitor.get_job_status. f chooses which gateway calls fail during    *)
(* the poll and whether the local copy of the log can be read; local is    *)
(* the local file /tmp/<job_id>_pipeline.log before the call. The result   *)
(* holds the returned dictionary (out), whether an exception left the      *)
(* method (raised), the local file afterwards (file), the gateway calls    *)
(* issued in order (calls) and what they answered (obs).                   *)
(***************************************************************************)
\* at most one failure on the way from the log's listing to its parsing: a
\* later one is never reached once an earlier one has happened
Faults ==
    {f \in [vm : BOOLEAN, marker : BOOLEAN, loglist : BOOLEAN,
            dl : {"ok", "fail", "partial"}, read : BOOLEAN] :
        /\ f.loglist => (f.dl = "ok" /\ ~f.read)
        /\ f.dl # "ok" => ~f.read}

InitialStatus(job_id) ==
    [job_id |-> job_id, status |-> "unknown", progress |-> 0,
     current_step |-> None, steps |-> <<>>, elapsed_time |-> 0,
     estimated_cost |-> 0, vm_status |-> "unknown", error |-> None]

\* except Exception as e: status["error"] = str(e); status["status"] = "error"
Caught(status, msg, local, calls, obs) ==
    [raised |-> FALSE,
     out |-> [status EXCEPT !.error = msg, !.status = "error"],
     file |-> local, calls |-> calls, obs |-> obs]

Returned(status, local, calls, obs) ==
    [raised |-> FALSE, out |-> status, file |-> local, calls |-> calls,
     obs |-> obs]

\* obs.failed: the gateway calls of the poll that ended in an exception
\* the marker found, without the progress set
MarkerStatusNoProgress(status) == [status EXCEPT !.status = "complete"]

\* lines 51-54: the completion marker is there
MarkerStatus(status) ==
    [status EXCEPT !.status = "complete", !.progress = 100]

NoObs == [vm |-> None, marker |-> FALSE, loglisted |-> FALSE,
          downloaded |-> FALSE, parsed |-> FALSE, text |-> <<>>,
          failed |-> {}]

\* lines 56-67: the log is listed, downloaded and parsed
\* the local file parsed whatever download_file returned
LogStepsUnchecked(job_id, local, f, listed) ==
    IF listed
    THEN LET dl == download_file(job_id, local, f.dl)
         IN  [raised |-> dl.raised, msg |-> None, downloaded |-> dl.val,
              file |-> dl.file,
              used |-> TRUE,
              steps |-> parse_pipeline_log(dl.file, f.read),
              parsed |-> dl.val /\ ~f.read,
              failed |-> bucket /\ f.dl # "ok"]
    ELSE [raised |-> FALSE, msg |-> None, downloaded |-> FALSE,
          file |-> local, used |-> FALSE, steps |-> <<>>, parsed |-> FALSE,
          failed |-> FALSE]

\* used: the steps were parsed and are put into the status (lines 63-67)
LogSteps(job_id, local, f, listed) ==
    IF listed
    THEN LET dl == download_file(job_id, local, f.dl)
         IN  [raised |-> dl.raised, msg |-> None, downloaded |-> dl.val,
              file |-> dl.file,
              used |-> dl.val,
              steps |-> IF dl.val THEN parse_pipeline_log(dl.file, f.read)
                        ELSE <<>>,
              parsed |-> dl.val /\ ~f.read,
              failed |-> bucket /\ f.dl # "ok"]
    ELSE [raised |-> FALSE, msg |-> None, downloaded |-> FALSE,
          file |-> local, used |-> FALSE, steps |-> <<>>, parsed |-> FALSE,
          failed |-> FALSE]

\* lines 60-78, with the log's listing (listed) and its download and parse
\* (ls) done
AfterLog(s1, vm_status, c3, o3, listed, ls) ==
    LET c4 == c3 \o (IF bucket /\ listed
                     THEN <<"download pipeline.log">> ELSE <<>>)
        o4 == [o3 EXCEPT
                 !.loglisted = listed,
                 !.downloaded = ls.downloaded,
                 !.parsed = ls.parsed,
                 !.text = IF ls.parsed THEN ls.file.content ELSE <<>>,
                 !.failed = @ \cup (IF ls.failed
                                    THEN {"download pipeline.log"} ELSE {})]
    IN
    IF ls.raised THEN Caught(s1, ls.msg, ls.file, c4, o4)
    ELSE
    LET progress == IF ls.used
                    THEN calculate_progress(ls.steps) ELSE s1.progress
        s2 == IF ls.used
              THEN [s1 EXCEPT
                      !.steps = ls.steps,
                      !.current_step = get_current_step(ls.steps),
                      !.progress = progress]
              ELSE s1
    IN  Returned([s2 EXCEPT !.status = ResolveStatus(vm_status, progress)],
                 ls.file, c4, o4)

\* x \in {e} evaluates e once and binds its value
GetJobStatusFrom(job_id, instance_name, local, f, vmr) ==
    LET status0 == InitialStatus(job_id)
        c1 == IF client THEN <<"instances.get">> ELSE <<>>
    IN
    IF vmr.raised THEN Caught(status0, vmr.msg, local, c1, NoObs)
    ELSE
    LET vm_status == vmr.val
        s1 == [status0 EXCEPT
                 !.vm_status = IF vm_status = None THEN "not_found"
                               ELSE vm_status]
        o1 == [NoObs EXCEPT
                 !.vm = vm_status,
                 !.failed = (IF client /\ f.vm THEN {"instances.get"} ELSE {})
                     \cup (IF bucket /\ f.marker
                           THEN {"list status.txt"} ELSE {})]
        mk == list_blobs(MarkerBlob(job_id), f.marker)
        c2 == c1 \o (IF bucket THEN <<"list status.txt">> ELSE <<>>)
    IN
    IF mk.raised THEN Caught(s1, mk.msg, local, c2, o1)
    ELSE IF mk.val # {}
    THEN Returned(MarkerStatus(s1), local, c2, [o1 EXCEPT !.marker = TRUE])
    ELSE
    LET lg == list_blobs(LogBlob(job_id), f.loglist)
        c3 == c2 \o (IF bucket THEN <<"list pipeline.log">> ELSE <<>>)
        o3 == [o1 EXCEPT
                 !.failed = @ \cup (IF bucket /\ f.loglist
                                    THEN {"list pipeline.log"} ELSE {})]
    IN
    IF lg.raised THEN Caught(s1, lg.msg, local, c3, o3)
    ELSE CHOOSE res \in
             {AfterLog(s1, vm_status, c3, o3, listed, ls) :
                 listed \in {lg.val # {}},
                 ls \in {LogSteps(job_id, local, f, lg.val # {})}} : TRUE

\* the instance status asked of the client directly, outside the try block
GetJobStatusUnguarded(job_id, instance_name, local, f) ==
    IF client /\ ClientGet(instance_name, f.vm).raised
    THEN [raised |-> TRUE, out |-> InitialStatus(job_id), file |-> local,
          calls |-> <<"instances.get">>, obs |-> NoObs]
    ELSE GetJobStatusFrom(job_id, instance_name, local, f,
                          get_instance_status(instance_name, f.vm))

GetJobStatus(job_id, instance_name, local, f) ==
    GetJobStatusFrom(job_id, instance_name, local, f,
                     get_instance_status(instance_name, f.vm))

(***************************************************************************)
(* _refresh_status: the caller's poll of the current job.                  *)
(***************************************************************************)
Poll ==
    /\ current_job_id # NoJob
    /\ current_instance_name # NoJob
    /\ \E f \in Faults :
         \E r \in {GetJobStatus(current_job_id, current_instance_name,
                                localLog[current_job_id], f)} :
             /\ ret' = [op |-> "poll", job_id |-> current_job_id,
                        raised |-> r.raised, out |-> r.out,
                        calls |-> r.calls, obs |-> r.obs]
             /\ localLog' = [localLog EXCEPT ![current_job_id] = r.file]
    /\ UNCHANGED <<cfg, client, bucket, now, current_job_id,
                   current_instance_name, job_start_time, instances, script,
                   marker, log, inputs, memo, launches, remoteSteps, arg,
                   ran>>

(***************************************************************************)
(* The remote side: the instance's life cycle under the compute gateway    *)
(* and the startup script running on it.                                   *)
(***************************************************************************)
\* the lines the pipeline appends to jobs/<id>/pipeline.log, in order, when
\* it runs the steps of its --steps list
PipelineLines(steps) ==
    [i \in 1..(2 * Len(steps)) |->
        IF i % 2 = 1 THEN step_patterns(steps[(i + 1) \div 2])
        ELSE completion_patterns(steps[i \div 2])]

JobOf(instance_name) == instance_name[2]

VmBoot(n) ==
    /\ instances[n] \in {"PROVISIONING", "STAGING"}
    /\ instances' = [instances EXCEPT
                       ![n] = IF instances[n] = "PROVISIONING" THEN "STAGING"
                              ELSE "RUNNING"]
    /\ UNCHANGED <<marker, log>>

PipelineLog(n) ==
    /\ instances[n] = "RUNNING"
    /\ JobOf(n) \notin marker
    /\ Len(log[JobOf(n)].content) < 2 * Len(script[n])
    /\ log' = [log EXCEPT ![JobOf(n)] =
                 [exists |-> TRUE,
                  content |-> Append(@.content,
                                     PipelineLines(script[n])
                                         [Len(@.content) + 1])]]
    /\ UNCHANGED <<instances, marker>>

\* echo "DONE" | ... gsutil cp - gs://<bucket>/jobs/<job_id>/status.txt
WriteMarker(n) ==
    /\ instances[n] = "RUNNING"
    /\ JobOf(n) \notin marker
    /\ Len(log[JobOf(n)].content) = 2 * Len(script[n])
    /\ marker' = marker \cup {JobOf(n)}
    /\ UNCHANGED <<instances, log>>

\* shutdown -h now
ScriptShutdown(n) ==
    /\ instances[n] = "RUNNING"
    /\ JobOf(n) \in marker
    /\ instances' = [instances EXCEPT ![n] = "STOPPING"]
    /\ UNCHANGED <<marker, log>>

\* scheduling.preemptible: the gateway may stop the instance at any time
Preempt(n) ==
    /\ instances[n] = "RUNNING"
    /\ instances' = [instances EXCEPT ![n] = "STOPPING"]
    /\ UNCHANGED <<marker, log>>

VmStopped(n) ==
    /\ instances[n] = "STOPPING"
    /\ instances' = [instances EXCEPT ![n] = "TERMINATED"]
    /\ UNCHANGED <<marker, log>>

RemoteStep ==
    /\ \E n \in InstanceNames :
         \/ VmBoot(n)
         \/ PipelineLog(n)
         \/ WriteMarker(n)
         \/ ScriptShutdown(n)
         \/ Preempt(n)
         \/ VmStopped(n)
    /\ ret' = NoRet
    /\ UNCHANGED <<cfg, client, bucket, now, current_job_id,
                   current_instance_name, job_start_time, script, inputs,
                   localLog, memo, launches, arg,
                   ran>>

(***************************************************************************)
(* SpecPoll: one launched job, the remote side running, the caller         *)
(* polling.                                                                *)
(***************************************************************************)
J0 == <<0, 0>>

\* the step selections the model launches jobs with
StepChoices == {StepIds, <<"fastqc", "megahit">>}

InitLaunched ==
    /\ cfg = [project |-> TRUE, bucket |-> TRUE]
    /\ client = TRUE
    /\ bucket = TRUE
    /\ now = 0
    /\ current_job_id = J0
    /\ current_instance_name = InstanceName(J0)
    /\ job_start_time = 0
    /\ instances = [n \in InstanceNames |->
                      IF n = InstanceName(J0) THEN "PROVISIONING" ELSE Absent]
    /\ \E steps \in StepChoices :
         script = [n \in InstanceNames |->
                     IF n = InstanceName(J0) THEN steps ELSE <<>>]
    /\ marker = {}
    /\ log = [j \in JobIds |-> NoFile]
    /\ inputs = {}
    /\ localLog = [j \in JobIds |-> NoFile]
    /\ ret = NoRet
    /\ memo = NoMemo
    /\ launches = 1
    /\ remoteSteps = 0
    /\ arg = NoArg
    /\ ran = <<>>

NextPoll ==
    \/ Poll
    \/ RemoteStep /\ UNCHANGED remoteSteps

SpecPoll == InitLaunched /\ [][NextPoll]_vars

(***************************************************************************)
(* SpecIdem: polls of one job compared with an earlier poll of it. The     *)
(* job starts in any state the remote side can bring it to; the remote     *)
(* side takes up to MaxRemoteSteps further steps.                          *)
(***************************************************************************)
\* what a poll is made against: the instance, the marker, the log
RemoteEnv(job_id) ==
    [vm |-> instances[InstanceName(job_id)],
     marker |-> job_id \in marker,
     text |-> log[job_id]]

\* what the gateways and the local copy of the log answered to a poll: the
\* reported instance status, whether the marker was listed, and the log text
\* that was parsed, if any
Answers(obs) ==
    [vm |-> obs.vm, marker |-> obs.marker, parsed |-> obs.parsed,
     text |-> obs.text]

\* the caller keeps what the last poll returned
Remember ==
    /\ ret.op = "poll"
    /\ memo = NoMemo
    /\ memo' = [op |-> "poll", job_id |-> ret.job_id,
                env |-> RemoteEnv(ret.job_id), answers |-> Answers(ret.obs),
                out |-> [status |-> ret.out.status,
                         progress |-> ret.out.progress,
                         current_step |-> ret.out.current_step,
                         steps |-> ret.out.steps]]
    /\ UNCHANGED <<cfg, client, bucket, now, current_job_id,
                   current_instance_name, job_start_time, instances, script,
                   marker, log, inputs, localLog, ret, launches, remoteSteps,
                   arg, ran>>

InitRunning ==
    /\ cfg = [project |-> TRUE, bucket |-> TRUE]
    /\ client = TRUE
    /\ bucket = TRUE
    /\ now = 0
    /\ current_job_id = J0
    /\ current_instance_name = InstanceName(J0)
    /\ job_start_time = 0
    /\ inputs = {}
    /\ localLog = [j \in JobIds |-> NoFile]
    /\ ret = NoRet
    /\ memo = NoMemo
    /\ launches = 1
    /\ remoteSteps = 0
    /\ arg = NoArg
    /\ ran = <<>>
    /\ \E steps \in StepChoices, st \in VmStatuses,
          len \in 0..(2 * Len(StepIds)), mk \in BOOLEAN :
         /\ len <= 2 * Len(steps)
         /\ st \in {"PROVISIONING", "STAGING"} => len = 0
         /\ mk => (len = 2 * Len(steps) /\ st \notin {"PROVISIONING", "STAGING"})
         /\ script = [n \in InstanceNames |->
                        IF n = InstanceName(J0) THEN steps ELSE <<>>]
         /\ instances = [n \in InstanceNames |->
                           IF n = InstanceName(J0) THEN st ELSE Absent]
         /\ marker = IF mk THEN {J0} ELSE {}
         /\ log = [j \in JobIds |->
                     IF j = J0 /\ len > 0
                     THEN [exists |-> TRUE,
                           content |-> SubSeq(PipelineLines(steps), 1, len)]
                     ELSE NoFile]

NextIdem ==
    \/ Poll
    \/ Remember
    \/ /\ remoteSteps < MaxRemoteSteps
       /\ RemoteStep
       /\ remoteSteps' = remoteSteps + 1

SpecIdem == InitRunning /\ [][NextIdem]_vars

\* every remote state SpecIdem starts in is one SpecPoll's job can be in,
\* and conversely
RemoteStateOfJ0 ==
    \E steps \in StepChoices, st \in VmStatuses,
       len \in 0..(2 * Len(StepIds)), mk \in BOOLEAN :
        /\ len <= 2 * Len(steps)
        /\ st \in {"PROVISIONING", "STAGING"} => len = 0
        /\ mk => (len = 2 * Len(steps) /\ st \notin {"PROVISIONING", "STAGING"})
        /\ script[InstanceName(J0)] = steps
        /\ instances[InstanceName(J0)] = st
        /\ marker = (IF mk THEN {J0} ELSE {})
        /\ log[J0] = (IF len > 0
                      THEN [exists |-> TRUE,
                            content |-> SubSeq(PipelineLines(steps), 1, len)]
                      ELSE NoFile)

(***************************************************************************)
(* File names. A name is the sequence of its characters; Chars lists the   *)
(* characters the names of the model are written with, in code point       *)
(* order, which is the order sorted() compares them in.                    *)
(***************************************************************************)
Chars == <<".", "1", "2", "R", "_", "a", "b", "f", "g", "q", "x", "z">>

CharCode(c) == CHOOSE i \in 1..Len(Chars) : Chars[i] = c

\* a < b for two str values
RECURSIVE StrLess(_, _)
StrLess(a, b) ==
    IF b = <<>> THEN FALSE
    ELSE IF a = <<>> THEN TRUE
    ELSE IF Head(a) = Head(b) THEN StrLess(Tail(a), Tail(b))
    ELSE CharCode(Head(a)) < CharCode(Head(b))

\* the list taken in the order given
unsorted(file_list) == file_list

\* sorted(file_list) for a list of two names
sorted(file_list) ==
    IF StrLess(file_list[2], file_list[1])
    THEN <<file_list[2], file_list[1]>>
    ELSE file_list

OccursAt(s, p, i) ==
    /\ i + Len(p) - 1 <= Len(s)
    /\ \A k \in 1..Len(p) : s[i + k - 1] = p[k]

Occurrences(s, p) == {i \in 1..Len(s) : OccursAt(s, p, i)}

\* p in s
str_in(p, s) == Occurrences(s, p) # {}

Min(S) == CHOOSE x \in S : \A y \in S : x <= y

Max(S) == CHOOSE x \in S : \A y \in S : y <= x

\* s.replace(p, ''): the occurrences are removed from left to right
RECURSIVE str_replace(_, _)
str_replace(s, p) ==
    IF ~str_in(p, s) THEN s
    ELSE LET i == Min(Occurrences(s, p))
         IN  SubSeq(s, 1, i - 1)
                 \o str_replace(SubSeq(s, i + Len(p), Len(s)), p)

\* s.endswith(p)
endswith(s, p) == Len(p) <= Len(s) /\ OccursAt(s, p, Len(s) - Len(p) + 1)

\* s.split(p)[0]
split_first(s, p) ==
    IF ~str_in(p, s) THEN s ELSE SubSeq(s, 1, Min(Occurrences(s, p)) - 1)

\* s.rsplit(p, 1)[0]
rsplit_first(s, p) ==
    IF ~str_in(p, s) THEN s ELSE SubSeq(s, 1, Max(Occurrences(s, p)) - 1)

\* lines 353-354: the sequence-file suffixes removed, in this order
strip_extensions(file) ==
    str_replace(
        str_replace(
            str_replace(
                str_replace(file, <<".", "f", "q", ".", "g", "z">>),
                <<".", "f", "a", "s", "t", "q", ".", "g", "z">>),
            <<".", "f", "q">>),
        <<".", "f", "a", "s", "t", "q">>)

Invalid(msg) == [ok |-> FALSE, forward |-> None, reverse |-> None, msg |-> msg]

\* lines 346-396, for a list of exactly two names
validate_pair(file_list) ==
    LET file1 == sorted(file_list)[1]
        file2 == sorted(file_list)[2]
        base1 == strip_extensions(file1)
        base2 == strip_extensions(file2)
        patterns_valid ==
            IF /\ endswith(base1, <<"_", "R", "1">>) \/ endswith(base1, <<"_", "1">>)
               /\ endswith(base2, <<"_", "R", "2">>) \/ endswith(base2, <<"_", "2">>)
            THEN rsplit_first(base1, <<"_">>) = rsplit_first(base2, <<"_">>)
            ELSE IF str_in(<<"_", "1", ".">>, file1) /\ str_in(<<"_", "2", ".">>, file2)
            THEN split_first(file1, <<"_", "1", ".">>)
                     = split_first(file2, <<"_", "2", ".">>)
            ELSE IF str_in(<<".", "1", ".">>, file1) /\ str_in(<<".", "2", ".">>, file2)
            THEN split_first(file1, <<".", "1", ".">>)
                     = split_first(file2, <<".", "2", ".">>)
            ELSE FALSE
    IN  IF ~patterns_valid
        THEN Invalid("Selected files do not appear to be paired reads")
        ELSE IF \/ str_in(<<"_", "R", "1">>, file1)
                \/ str_in(<<"_", "1">>, file1)
                \/ str_in(<<".", "1", ".">>, file1)
        THEN [ok |-> TRUE, forward |-> file1, reverse |-> file2, msg |-> ""]
        ELSE [ok |-> TRUE, forward |-> file2, reverse |-> file1, msg |-> ""]

\* a list of more than two names validated by its first two
validate_leading_pair(file_list) ==
    IF Len(file_list) = 0 THEN Invalid("No files selected")
    ELSE IF Len(file_list) = 1
    THEN Invalid("Please select both forward and reverse read files")
    ELSE validate_pair(file_list)

validate_paired_files(file_list) ==
    IF Len(file_list) = 0 THEN Invalid("No files selected")
    ELSE IF Len(file_list) = 1
    THEN Invalid("Please select both forward and reverse read files")
    ELSE IF Len(file_list) > 2 THEN Invalid("Please select exactly 2 files")
    ELSE validate_pair(file_list)

(***************************************************************************)
(* VMLauncher: create_vm, delete_vm and the wait for an operation. An      *)
(* operation is the object insert or delete returned: its status and error *)
(* as they were when the call returned (the wait reads this object and     *)
(* nothing refreshes it), and doneAt, the seconds after which the gateway  *)
(* finished it.                                                            *)
(***************************************************************************)
Timeout == 300
SleepSeconds == 5

Operations ==
    {[status |-> IF d = 0 THEN "DONE" ELSE "RUNNING", err |-> e, doneAt |-> d] :
        d \in {0, SleepSeconds}, e \in BOOLEAN}

NoOperation == [status |-> "none", err |-> FALSE, doneAt |-> 0]

OperationFailed == "Operation failed"
OperationTimedOut == "Operation timed out after 300 seconds"
AlreadyExists == "already exists"
NotFound == "not found"
Unavailable == "service unavailable"

Waited(raised, msg, elapsed) ==
    [raised |-> raised, msg |-> msg, waited |-> elapsed]

\* the wait left normally when the time is up
RECURSIVE WaitNoTimeout(_, _, _)
WaitNoTimeout(operation, timeout, elapsed) ==
    IF elapsed < timeout
    THEN IF operation.status = "DONE"
         THEN IF operation.err THEN Waited(TRUE, OperationFailed, elapsed)
              ELSE Waited(FALSE, None, elapsed)
         ELSE WaitNoTimeout(operation, timeout, elapsed + SleepSeconds)
    ELSE Waited(FALSE, None, elapsed)

\* lines 204-211: elapsed is time.time() - start_time
RECURSIVE WaitLoop(_, _, _)
WaitLoop(operation, timeout, elapsed) ==
    IF elapsed < timeout
    THEN IF operation.status = "DONE"
         THEN IF operation.err THEN Waited(TRUE, OperationFailed, elapsed)
              ELSE Waited(FALSE, None, elapsed)
         ELSE WaitLoop(operation, timeout, elapsed + SleepSeconds)
    ELSE Waited(TRUE, OperationTimedOut, elapsed)

wait_for_operation_unbounded(operation) == WaitNoTimeout(operation, Timeout, 0)

wait_for_operation(operation) == WaitLoop(operation, Timeout, 0)

\* self.client.insert: refused for a name in use, or when the gateway fails
ClientInsert(instance_name, fail, operation) ==
    IF fail THEN [raised |-> TRUE, msg |-> Unavailable, val |-> NoOperation]
    ELSE IF instances[instance_name] # Absent
    THEN [raised |-> TRUE, msg |-> AlreadyExists, val |-> NoOperation]
    ELSE [raised |-> FALSE, msg |-> None, val |-> operation]

\* self.client.delete: refused for a name not in use, or when the gateway fails
ClientDelete(instance_name, fail, operation) ==
    IF fail THEN [raised |-> TRUE, msg |-> Unavailable, val |-> NoOperation]
    ELSE IF instances[instance_name] = Absent
    THEN [raised |-> TRUE, msg |-> NotFound, val |-> NoOperation]
    ELSE [raised |-> FALSE, msg |-> None, val |-> operation]

\* val: what the method returned (NoJob for None); error: the message of the
\* exception the method caught and printed; accepted: the gateway took the
\* request; waited: the seconds spent in the wait
VmResult(val, calls, operation, error, accepted, waited) ==
    [val |-> val, calls |-> calls, operation |-> operation, error |-> error,
     accepted |-> accepted, waited |-> waited]

create_vm(instance_name, fail, operation) ==
    IF ~client THEN VmResult(NoJob, <<>>, NoOperation, None, FALSE, 0)
    ELSE LET ins == ClientInsert(instance_name, fail, operation)
         IN  IF ins.raised
             THEN VmResult(NoJob, <<"instances.insert">>, NoOperation, ins.msg,
                           FALSE, 0)
             ELSE LET w == wait_for_operation(ins.val)
                  IN  VmResult(IF w.raised THEN NoJob ELSE instance_name,
                               <<"instances.insert">>, ins.val,
                               IF w.raised THEN w.msg ELSE None,
                               TRUE, w.waited)

delete_vm(instance_name, fail, operation) ==
    IF ~client THEN VmResult(FALSE, <<>>, NoOperation, None, FALSE, 0)
    ELSE LET del == ClientDelete(instance_name, fail, operation)
         IN  IF del.raised
             THEN VmResult(FALSE, <<"instances.delete">>, NoOperation, del.msg,
                           FALSE, 0)
             ELSE LET w == wait_for_operation(del.val)
                  IN  VmResult(~w.raised, <<"instances.delete">>, del.val,
                               IF w.raised THEN w.msg ELSE None,
                               TRUE, w.waited)

\* JobMonitor.cancel_job
cancel_job(job_id, instance_name, fail, operation) ==
    delete_vm(instance_name, fail, operation)

NoUri == <<>>

\* StorageHandler.upload_file: the URI of the stored object, or None
upload_file(blob_name, fail) ==
    LET call == IF blob_name[3] = "CV_1.fq.gz" THEN "upload CV_1.fq.gz"
                ELSE "upload CV_2.fq.gz"
    IN  IF ~bucket THEN [uri |-> NoUri, calls |-> <<>>, stored |-> {}]
        ELSE IF fail THEN [uri |-> NoUri, calls |-> <<call>>, stored |-> {}]
        ELSE [uri |-> blob_name, calls |-> <<call>>, stored |-> {blob_name}]

(***************************************************************************)
(* MetagenomicsUI._launch_pipeline.                                        *)
(***************************************************************************)
a_R1 == <<"a", "_", "R", "1", ".", "f", "q">>
a_R2 == <<"a", "_", "R", "2", ".", "f", "q">>
b_R2 == <<"b", "_", "R", "2", ".", "f", "q">>

\* the selections of the storage tab
GcsSelections ==
    {<<>>, <<a_R1>>, <<a_R1, a_R2>>, <<a_R2, a_R1>>, <<a_R1, b_R2>>,
     <<a_R1, a_R2, b_R2>>}

\* the names self.gcs_file_mapping has a path for
GcsFileMappings == {{a_R1, a_R2, b_R2}, {a_R2, b_R2}}

\* the arguments of a launch; threads is whether int(threads) and
\* int(min_contig_len) succeed
LaunchInputs ==
    {in \in [input_method : {"upload", "gcs"}, file1 : BOOLEAN,
             file2 : BOOLEAN, gcs_files : GcsSelections,
             mapping : GcsFileMappings, threads : BOOLEAN] :
        /\ in.input_method = "upload"
               => (in.gcs_files = <<>> /\ in.mapping = {a_R2, b_R2})
        /\ in.input_method = "gcs" => (in.file1 /\ in.file2)}

\* step_flags: the positions of the catalog whose box is ticked
StepFlagChoices == {{1, 3}}

\* lines 427-431 of app.py: enabled_steps, a dictionary as the sequence of
\* its entries in insertion order
enabled_steps(step_flags) ==
    [i \in 1..Len(StepIds) |->
        [step |-> StepIds[i], enabled |-> i \in step_flags]]

\* lines 238-240 of launcher.py: the keys of the enabled entries, in the
\* order of the dictionary
RECURSIVE steps_list(_)
steps_list(entries) ==
    IF entries = <<>> THEN <<>>
    ELSE (IF Head(entries).enabled THEN <<Head(entries).step>> ELSE <<>>)
             \o steps_list(Tail(entries))

\* the failures the gateways answer a launch with; a call that is not
\* reached has no failure
LaunchFaults(in) ==
    {f \in [up1 : BOOLEAN, up2 : BOOLEAN, insert : BOOLEAN,
            operation : Operations] :
        /\ in.input_method = "gcs" => (~f.up1 /\ ~f.up2)
        /\ (f.up1 \/ f.up2 \/ f.insert \/ ~in.threads)
               => f.operation = [status |-> "DONE", err |-> FALSE, doneAt |-> 0]
        /\ (f.up1 \/ f.up2 \/ ~in.threads) => ~f.insert}

Message(text, detail) == [text |-> text, detail |-> detail]

NoVm == VmResult(NoJob, <<>>, NoOperation, None, FALSE, 0)

Rejected(text) ==
    [ok |-> FALSE, msg |-> Message(text, None), uri1 |-> NoUri, uri2 |-> NoUri]

\* lines 350-395: the inputs are validated
LaunchValidate(in) ==
    IF in.input_method = "upload"
    THEN IF ~in.file1 \/ ~in.file2
         THEN Rejected("Please upload both forward and reverse read files.")
         ELSE [ok |-> TRUE, msg |-> Message("", None), uri1 |-> NoUri,
               uri2 |-> NoUri]
    ELSE IF Len(in.gcs_files) = 0
    THEN Rejected("Please select files from Google Cloud Storage.")
    ELSE IF \E i \in 1..Len(in.gcs_files) : in.gcs_files[i] \notin in.mapping
    THEN Rejected("Could not find file path")
    ELSE LET v == validate_paired_files(in.gcs_files)
         IN  IF ~v.ok THEN Rejected(v.msg)
             ELSE [ok |-> TRUE, msg |-> Message("", None),
                   uri1 |-> <<"gs", v.forward>>, uri2 |-> <<"gs", v.reverse>>]

\* the project alone looked at
ConfigSetProjectOnly == cfg.project

\* line 397: config.GCP_PROJECT_ID and config.GCP_BUCKET_NAME are set
ConfigSet == cfg.project /\ cfg.bucket

\* allocated: the job id was assigned to the session (lines 406-408)
LaunchResult(ok, msg, calls, allocated, stored, vm) ==
    [ok |-> ok, msg |-> msg, calls |-> calls, allocated |-> allocated,
     stored |-> stored, vm |-> vm]

\* the instance created without a look at what the uploads returned
LaunchTryUnchecked(in, v, job_id, f) ==
    LET upload == in.input_method = "upload"
        u1 == IF upload
              THEN upload_file(<<"inputs", job_id, "CV_1.fq.gz">>, f.up1)
              ELSE [uri |-> v.uri1, calls |-> <<>>, stored |-> {}]
        u2 == IF upload
              THEN upload_file(<<"inputs", job_id, "CV_2.fq.gz">>, f.up2)
              ELSE [uri |-> v.uri2, calls |-> <<>>, stored |-> {}]
        calls == u1.calls \o u2.calls
        stored == u1.stored \cup u2.stored
        vm == create_vm(InstanceName(job_id), f.insert, f.operation)
    IN  IF vm.val = NoJob
        THEN LaunchResult(FALSE, Message("Failed to launch VM on GCP.", None),
                          calls \o vm.calls, TRUE, stored, vm)
        ELSE LaunchResult(TRUE, Message("Pipeline launched successfully!", None),
                          calls \o vm.calls, TRUE, stored, vm)

\* lines 404-477, with the id job_id drawn
LaunchTry(in, v, job_id, f) ==
    LET upload == in.input_method = "upload"
        u1 == IF upload
              THEN upload_file(<<"inputs", job_id, "CV_1.fq.gz">>, f.up1)
              ELSE [uri |-> v.uri1, calls |-> <<>>, stored |-> {}]
        u2 == IF upload
              THEN upload_file(<<"inputs", job_id, "CV_2.fq.gz">>, f.up2)
              ELSE [uri |-> v.uri2, calls |-> <<>>, stored |-> {}]
        calls == u1.calls \o u2.calls
        stored == u1.stored \cup u2.stored
    IN
    IF u1.uri = NoUri \/ u2.uri = NoUri
    THEN LaunchResult(FALSE, Message("Failed to upload files to GCS.", None),
                      calls, TRUE, stored, NoVm)
    ELSE IF ~in.threads
    THEN LaunchResult(FALSE,
                      Message("Error launching pipeline", "invalid literal"),
                      calls, TRUE, stored, NoVm)
    ELSE
    LET vm == create_vm(InstanceName(job_id), f.insert, f.operation)
    IN  IF vm.val = NoJob
        THEN LaunchResult(FALSE, Message("Failed to launch VM on GCP.", None),
                          calls \o vm.calls, TRUE, stored, vm)
        ELSE LaunchResult(TRUE, Message("Pipeline launched successfully!", None),
                          calls \o vm.calls, TRUE, stored, vm)

launch_pipeline(in, job_id, f) ==
    LET v == LaunchValidate(in)
    IN  IF ~v.ok THEN LaunchResult(FALSE, v.msg, <<>>, FALSE, {}, NoVm)
        ELSE IF ~ConfigSet
        THEN LaunchResult(FALSE, Message("GCP not configured.", None), <<>>,
                          FALSE, {}, NoVm)
        ELSE LaunchTry(in, v, job_id, f)

\* an id that leaves the epoch second out
generate_job_id_random_only(rand, time) == <<rand, 0>>

\* line 406: job_<first 8 hex digits of a uuid4>_<epoch second>
generate_job_id(rand, time) == <<rand, time>>

\* the epoch second after a call that waited: a wait moves the clock on
ClockAfter(waited) == IF waited > 0 THEN now + 1 ELSE now

Launch ==
    /\ launches < MaxLaunches
    /\ launches' = launches + 1
    /\ \E in \in LaunchInputs, rand \in 0..MaxRand, step_flags \in StepFlagChoices :
         \E f \in LaunchFaults(in) :
           \E job_id \in {generate_job_id(rand, now)} :
             \E r \in {launch_pipeline(in, job_id, f)} :
               /\ ClockAfter(r.vm.waited) <= MaxTime
               /\ now' = ClockAfter(r.vm.waited)
               /\ ret' = [op |-> "launch", ok |-> r.ok, msg |-> r.msg,
                          calls |-> r.calls,
                          job_id |-> IF r.allocated THEN job_id ELSE NoJob,
                          input_method |-> in.input_method,
                          gcs_files |-> in.gcs_files,
                          stored |-> r.stored, vm |-> r.vm]
               /\ current_job_id' =
                      IF r.allocated THEN job_id ELSE current_job_id
               /\ current_instance_name' =
                      IF r.allocated THEN InstanceName(job_id)
                      ELSE current_instance_name
               /\ job_start_time' =
                      IF r.allocated THEN now ELSE job_start_time
               /\ inputs' = inputs \cup r.stored
               /\ IF r.vm.accepted /\ ~r.vm.operation.err
                  THEN /\ instances' = [instances EXCEPT
                                          ![InstanceName(job_id)] = "PROVISIONING"]
                       /\ script' = [script EXCEPT
                                       ![InstanceName(job_id)] =
                                           steps_list(enabled_steps(step_flags))]
                  ELSE UNCHANGED <<instances, script>>
    /\ UNCHANGED <<cfg, client, bucket, marker, log, localLog, memo,
                   remoteSteps, arg,
                   ran>>

(***************************************************************************)
(* MetagenomicsUI._cancel_job.                                             *)
(***************************************************************************)
CancelFaults ==
    {f \in [delete : BOOLEAN, operation : Operations] :
        f.delete => f.operation = [status |-> "DONE", err |-> FALSE, doneAt |-> 0]}

NoDelete == VmResult(FALSE, <<>>, NoOperation, None, FALSE, 0)

\* lines 479-512
cancel(f) ==
    IF current_job_id = NoJob \/ current_instance_name = NoJob
    THEN [ok |-> FALSE, msg |-> Message("No active job to cancel.", None),
          vm |-> NoDelete]
    ELSE LET vm == cancel_job(current_job_id, current_instance_name, f.delete,
                              f.operation)
         IN  IF vm.val
             THEN [ok |-> TRUE, msg |-> Message("cancelled successfully.", None),
                   vm |-> vm]
             ELSE [ok |-> FALSE, msg |-> Message("Failed to cancel job", None),
                   vm |-> vm]

Cancel ==
    /\ \E f \in CancelFaults :
         \E r \in {cancel(f)} :
           /\ ClockAfter(r.vm.waited) <= MaxTime
           /\ now' = ClockAfter(r.vm.waited)
           /\ ret' = [op |-> "cancel", ok |-> r.ok, msg |-> r.msg,
                      calls |-> r.vm.calls, target |-> current_instance_name,
                      vm |-> r.vm]
           /\ instances' =
                  IF r.vm.accepted /\ ~r.vm.operation.err
                  THEN [instances EXCEPT ![current_instance_name] = Absent]
                  ELSE instances
    /\ UNCHANGED <<cfg, client, bucket, current_job_id, current_instance_name,
                   job_start_time, script, marker, log, inputs, localLog, memo,
                   launches, remoteSteps, arg,
                   ran>>

\* the wall clock moves on
Tick ==
    /\ now < MaxTime
    /\ now' = now + 1
    /\ ret' = NoRet
    /\ UNCHANGED <<cfg, client, bucket, current_job_id, current_instance_name,
                   job_start_time, instances, script, marker, log, inputs,
                   localLog, memo, launches, remoteSteps, arg,
                   ran>>

(***************************************************************************)
(* Spec: a session from its construction on: the caller's launches and     *)
(* cancels, the clock and the remote side running. The polls of a launched *)
(* job are SpecPoll's.                                                     *)
(***************************************************************************)
Init ==
    /\ cfg \in [project : BOOLEAN, bucket : BOOLEAN]
    /\ client \in BOOLEAN
    /\ bucket \in (IF cfg.bucket THEN BOOLEAN ELSE {FALSE})
    /\ now = 0
    /\ current_job_id = NoJob
    /\ current_instance_name = NoJob
    /\ job_start_time = 0
    /\ instances = [n \in InstanceNames |-> Absent]
    /\ script = [n \in InstanceNames |-> <<>>]
    /\ marker = {}
    /\ log = [j \in JobIds |-> NoFile]
    /\ inputs = {}
    /\ localLog = [j \in JobIds |-> NoFile]
    /\ ret = NoRet
    /\ memo = NoMemo
    /\ launches = 0
    /\ remoteSteps = 0
    /\ arg = NoArg
    /\ ran = <<>>

Next ==
    \/ Launch
    \/ Cancel
    \/ Tick
    \/ RemoteStep /\ UNCHANGED remoteSteps

Spec == Init /\ [][Next]_vars

(***************************************************************************)
(* Properties of get_job_status, stated on the value a poll has just       *)
(* returned (ret) and the remote state it was made against.                *)
(***************************************************************************)
Polled == ret.op = "poll"

Issued(call) == \E i \in 1..Len(ret.calls) : ret.calls[i] = call

Answered(call) == Issued(call) /\ call \notin ret.obs.failed

Statuses == {"pending", "starting", "running", "complete", "failed",
             "cancelled", "error", "unknown"}

ReportedVmStatus ==
    IF ~Answered("instances.get") THEN None
    ELSE IF instances[InstanceName(ret.job_id)] = Absent THEN None
    ELSE instances[InstanceName(ret.job_id)]

\* C2: with the marker absent, the returned status is decided by the reported
\* instance status and the returned progress: RUNNING gives running,
\* TERMINATED gives complete at progress 100 and failed below, PROVISIONING
\* and STAGING give starting, everything else gives unknown.
C2_StatusFromInstance ==
    (Polled /\ ret.job_id \notin marker) =>
        LET vm == ReportedVmStatus
            st == ret.out.status
        IN  /\ vm = "RUNNING" => st = "running"
            /\ vm = "TERMINATED" =>
                   st = (IF ret.out.progress = 100 THEN "complete"
                         ELSE "failed")
            /\ vm \in {"PROVISIONING", "STAGING"} => st = "starting"
            /\ vm \notin {"RUNNING", "TERMINATED", "PROVISIONING", "STAGING"}
                   => st = "unknown"

\* a stopped instance without marker whose log shows every step complete
C2_Witness ==
    /\ Polled
    /\ ret.job_id \notin marker
    /\ ReportedVmStatus = "TERMINATED"
    /\ ret.out.progress = 100
    /\ ret.out.status = "complete"

\* C3, as claimed: the progress of a poll that parsed the log is 100 times
\* the share of complete steps rounded to the nearest integer, and 0 when no
\* step is recognized.
C3_ProgressRounded ==
    (Polled /\ ~ret.obs.marker) =>
        LET n == Len(ret.out.steps)
            c == CompletedSteps(ret.out.steps)
            p == ret.out.progress
        IN  IF n = 0 THEN p = 0
            ELSE 2 * n * p - n <= 200 * c /\ 200 * c < 2 * n * p + n

\* C3, amended: the progress is 100 times the share of complete steps
\* truncated to an integer (3 of 7 steps give 42), and 0 when no step is
\* recognized.
C3_ProgressTruncated ==
    (Polled /\ ~ret.obs.marker) =>
        LET n == Len(ret.out.steps)
            c == CompletedSteps(ret.out.steps)
            p == ret.out.progress
        IN  IF n = 0 THEN p = 0
            ELSE n * p <= 100 * c /\ 100 * c < n * (p + 1)

\* two of seven steps complete: 28, where rounding gives 29
C3_Witness ==
    /\ Polled
    /\ ~ret.obs.marker
    /\ Len(ret.out.steps) = 7
    /\ CompletedSteps(ret.out.steps) = 2
    /\ ret.out.progress = 28

\* C4: a poll never leaves get_job_status by an exception, whichever gateway
\* calls fail: it returns a status record.
C4_NeverRaises ==
    Polled =>
        /\ ~ret.raised
        /\ ret.out.status \in Statuses
        /\ ret.out.progress \in 0..100

\* a poll during which a gateway call failed
C4_Witness ==
    /\ Polled
    /\ ret.obs.failed # {}
    /\ ~ret.raised

\* C5: a poll during which a gateway query failed returns status error with
\* the failure's message in its error field.
C5_FailureGivesError ==
    (Polled /\ ret.obs.failed # {})
        => (ret.out.status = "error" /\ ret.out.error # None)

SameResult(a, b) ==
    /\ a.status = b.status
    /\ a.progress = b.progress
    /\ a.current_step = b.current_step
    /\ a.steps = b.steps

C7_CancelNotFoundSucceeds ==
    (ret.op = "cancel" /\ ret.vm.error = NotFound) => ret.ok

\* C8: a launch with the project or the bucket name unset, or with a storage
\* selection that fails pair validation, returns an error, has issued no
\* gateway call, has stored no object and has requested no instance.
C8_RejectedBeforeRemoteCall ==
    (/\ ret.op = "launch"
     /\ \/ ~cfg.project
        \/ ~cfg.bucket
        \/ /\ ret.input_method = "gcs"
           /\ ~validate_paired_files(ret.gcs_files).ok)
        => /\ ~ret.ok
           /\ ret.calls = <<>>
           /\ ret.stored = {}
           /\ ~ret.vm.accepted
           /\ ret.job_id = NoJob

\* a launch of a valid pair from storage, with working clients and the
\* bucket name unset, rejected
C8_Witness ==
    /\ ret.op = "launch"
    /\ cfg.project /\ ~cfg.bucket /\ client
    /\ ret.input_method = "gcs"
    /\ validate_paired_files(ret.gcs_files).ok
    /\ ~ret.ok
    /\ ret.calls = <<>>

\* C9: create_vm returns the instance name only when the operation insert
\* returned was seen done without error; when the operation carries an error
\* or the wait of Timeout seconds expires, create_vm returns None and launch
\* reports failure.
C9_NameOnlyWhenDone ==
    (ret.op = "launch" /\ ret.vm.accepted) =>
        LET operation == ret.vm.operation
            seen == operation.status = "DONE" /\ ~operation.err
        IN  /\ ret.vm.val # NoJob => seen
            /\ ret.ok => seen
            /\ ~seen => (ret.vm.val = NoJob /\ ~ret.ok)
            /\ ret.vm.waited <= Timeout
            /\ (operation.status # "DONE") => ret.vm.error = OperationTimedOut

\* a launch whose create operation was not done within the wait: failure is
\* reported while the instance exists
C9_Witness ==
    /\ ret.op = "launch"
    /\ ret.vm.accepted
    /\ ret.vm.operation.status = "RUNNING"
    /\ ~ret.vm.operation.err
    /\ ret.vm.waited = Timeout
    /\ ret.vm.val = NoJob
    /\ ~ret.ok
    /\ instances[InstanceName(ret.job_id)] = "PROVISIONING"

\* C10: a launch or cancel that failed on a gateway error (the call refused,
\* the operation failed or timed out) returns a reason that carries the
\* gateway's message.
C10_FailureCarriesGatewayMessage ==
    (ret.op \in {"launch", "cancel"} /\ ~ret.ok /\ ret.vm.error # None)
        => ret.msg.detail = ret.vm.error

(***************************************************************************)
(* SpecCalls: the functions of the core called directly, each on an        *)
(* argument drawn from a bounded set.                                      *)
(***************************************************************************)
MaxEntries == 3

StepSet == {StepIds[i] : i \in 1..Len(StepIds)}

\* the enabled_steps dictionaries: every dictionary of up to MaxEntries
\* entries in any order, and the ones _launch_pipeline builds
EnabledStepsChoices ==
    UNION {{d \in [1..n -> [step : StepSet, enabled : BOOLEAN]] :
               \A i, j \in 1..n : i < j => d[i].step # d[j].step} :
           n \in 0..MaxEntries}
        \cup {enabled_steps(fl) : fl \in SUBSET (1..Len(StepIds))}

ScriptArgs ==
    {[fn |-> "generate_startup_script", enabled_steps |-> d] :
        d \in EnabledStepsChoices}

\* the names of read files: a sample, a read marker, a suffix
PairNames ==
    {stem \o mark \o ext :
        stem \in {<<"a">>, <<"b">>},
        mark \in {<<>>, <<"_", "R", "1">>, <<"_", "R", "2">>, <<"_", "1">>,
                  <<"_", "2">>, <<".", "1">>, <<".", "2">>,
                  <<"_", "1", "_", "2">>, <<"_", "2", "_", "1">>},
        ext \in {<<>>, <<".", "f", "q">>, <<".", "f", "q", ".", "g", "z">>,
                 <<".", "x", ".", "f", "q">>}}

MaxFiles == 3

\* names that carry a read marker twice: a_1.b_1.fq and a_2.b_2.fq
NestedNames ==
    {<<"a", "_", "1", ".", "b", "_", "1", ".", "f", "q">>,
     <<"a", "_", "2", ".", "b", "_", "2", ".", "f", "q">>}

\* the lists of names: every pair, and every list of up to MaxFiles names of
\* the storage tab
FileLists ==
    (PairNames \X PairNames)
        \cup UNION {[1..n -> {a_R1, a_R2, b_R2}] : n \in 0..MaxFiles}
        \cup (NestedNames \X NestedNames)

ValidateArgs ==
    {[fn |-> "validate_paired_files", file_list |-> l] : l \in FileLists}

(***************************************************************************)
(* JobMonitor.get_results. An object name is the sequence of its path      *)
(* components below results/<job_id>/, each a sequence of characters; the  *)
(* dictionary returned is the sequence of its entries in insertion order.  *)
(***************************************************************************)
\* str.lower() of a character
LowerChar(c) ==
    CASE c = "A" -> "a" [] c = "C" -> "c" [] c = "F" -> "f" [] c = "M" -> "m"
      [] c = "Q" -> "q" [] OTHER -> c

lower(str) == [i \in 1..Len(str) |-> LowerChar(str[i])]

\* blob_name.split('/')[-1]
filename_of(blob_name) == blob_name[Len(blob_name)]

multiqc_report == <<"m", "u", "l", "t", "i", "q", "c", "_", "r", "e", "p", "o", "r", "t">>
contigs == <<"c", "o", "n", "t", "i", "g", "s">>
pfam_annotations == <<"p", "f", "a", "m", "_", "a", "n", "n", "o", "t", "a", "t", "i", "o", "n", "s">>
bins == <<"b", "i", "n", "s">>
checkm_report == <<"c", "h", "e", "c", "k", "m", "_", "r", "e", "p", "o", "r", "t">>

\* the annotation rule tried before the contigs rule
result_key_annotations_first(filename) ==
    LET low == lower(filename)
    IN  IF str_in(<<"m", "u", "l", "t", "i", "q", "c">>, low) THEN multiqc_report
        ELSE IF str_in(<<"p", "f", "a", "m">>, low) \/ str_in(<<"h", "m", "m", "s", "c", "a", "n">>, low)
        THEN pfam_annotations
        ELSE IF str_in(contigs, low) /\ endswith(filename, <<".", "f", "a">>)
        THEN contigs
        ELSE IF str_in(bins, low) \/ str_in(<<"m", "e", "t", "a", "b", "a", "t">>, low) THEN bins
        ELSE IF str_in(<<"c", "h", "e", "c", "k", "m">>, low) THEN checkm_report
        ELSE filename

\* lines 222-234: the key an object is stored under
result_key(filename) ==
    LET low == lower(filename)
    IN  IF str_in(<<"m", "u", "l", "t", "i", "q", "c">>, low) THEN multiqc_report
        ELSE IF str_in(contigs, low) /\ endswith(filename, <<".", "f", "a">>)
        THEN contigs
        ELSE IF str_in(<<"p", "f", "a", "m">>, low) \/ str_in(<<"h", "m", "m", "s", "c", "a", "n">>, low)
        THEN pfam_annotations
        ELSE IF str_in(bins, low) \/ str_in(<<"m", "e", "t", "a", "b", "a", "t">>, low) THEN bins
        ELSE IF str_in(<<"c", "h", "e", "c", "k", "m">>, low) THEN checkm_report
        ELSE filename

\* results[key] = url
DictSet(dict, key, url) ==
    IF \E i \in 1..Len(dict) : dict[i].key = key
    THEN [i \in 1..Len(dict) |->
             IF dict[i].key = key THEN [key |-> key, url |-> url] ELSE dict[i]]
    ELSE Append(dict, [key |-> key, url |-> url])

\* lines 214-234: the objects from the i-th on put into results; nourl holds
\* the positions for which generate_signed_url returns None
RECURSIVE categorize(_, _, _, _)
categorize(blobs, nourl, i, results) ==
    IF i > Len(blobs) THEN results
    ELSE categorize(blobs, nourl, i + 1,
                    IF i \in nourl THEN results
                    ELSE DictSet(results, result_key(filename_of(blobs[i])),
                                 blobs[i]))

\* blobs: what list_blobs returns for results/<job_id>/
get_results(blobs, nourl) == categorize(blobs, nourl, 1, <<>>)

NameParts ==
    {<<"m", "u", "l", "t", "i", "q", "c">>, <<"M", "u", "l", "t", "i", "Q", "C">>, contigs, <<"p", "f", "a", "m">>, <<"h", "m", "m", "s", "c", "a", "n">>, bins, <<"m", "e", "t", "a", "b", "a", "t">>,
     <<"c", "h", "e", "c", "k", "m">>, <<"x">>}

\* the file names of result objects: one or two words and a suffix
ResultNames ==
    {p1 \o p2 \o ext :
        p1 \in NameParts, p2 \in NameParts \cup {<<>>},
        ext \in {<<>>, <<".", "f", "a">>, <<".", "F", "A">>,
                 <<".", "h", "t", "m", "l">>}}

MaxObjects == 2

\* the listings: every single object, at the top or in a directory, and
\* every listing of up to MaxObjects of a few objects
Listings ==
    {<<<<n>>>> : n \in ResultNames}
        \cup {<<<<bins, n>>>> : n \in ResultNames}
        \cup UNION {[1..n -> {<<<<"c", "o", "n", "t", "i", "g", "s", ".", "f", "a">>>>, <<<<"x", "c", "o", "n", "t", "i", "g", "s", ".", "f", "a">>>>,
                              <<<<"m", "u", "l", "t", "i", "q", "c">>>>, <<<<"x">>>>}] :
                    n \in 0..MaxObjects}

ResultsArgs ==
    {[fn |-> "get_results", blobs |-> l, nourl |-> u] :
        l \in Listings, u \in {{}, {1}}}

(***************************************************************************)
(* JobMonitor.estimate_cost. Times are whole seconds, rates hundredths of a *)
(* dollar per hour; the cost is the exact quotient num / den dollars, where *)
(* the code computes it in floating point.                                  *)
(***************************************************************************)
DefaultRate == 50
SecondsPerHour == 3600

\* config.COST_PER_HOUR
COST_PER_HOUR ==
    [m \in {"n1-standard-16", "n1-highmem-16"} |->
        IF m = "n1-standard-16" THEN 38 ELSE 47]

\* a machine type the table does not hold costs nothing
estimate_cost_known_only(machine_type, start_time, end_time) ==
    [num |-> (end_time - start_time)
                 * (IF machine_type \in DOMAIN COST_PER_HOUR
                    THEN COST_PER_HOUR[machine_type] ELSE 0),
     den |-> SecondsPerHour * 100]

\* lines 191-194, with end_time given or taken from the clock
estimate_cost(machine_type, start_time, end_time) ==
    [num |-> (end_time - start_time)
                 * (IF machine_type \in DOMAIN COST_PER_HOUR
                    THEN COST_PER_HOUR[machine_type] ELSE DefaultRate),
     den |-> SecondsPerHour * 100]

MaxSeconds == 3

MachineTypes == {"n1-standard-16", "n1-highmem-16", "e2-medium"}

\* end_given: end_time is passed; otherwise it is None and the clock is read
CostArgs ==
    {a \in [fn : {"estimate_cost"}, machine_type : MachineTypes,
            start_time : 0..MaxSeconds, end_time : 0..MaxSeconds,
            end_given : BOOLEAN, clock : 0..MaxSeconds] :
        /\ a.end_given => a.clock = 0
        /\ ~a.end_given => a.end_time = 0}

\* everything but ret is left as it is
CallFrame ==
    UNCHANGED <<cfg, client, bucket, now, current_job_id,
                current_instance_name, job_start_time, instances, script,
                marker, log, inputs, localLog, memo, launches, remoteSteps,
                arg, ran>>

\* VMLauncher.generate_startup_script: the --steps list of the script
GenerateStartupScript ==
    /\ arg.fn = "generate_startup_script"
    /\ ret' = [op |-> "generate_startup_script",
               enabled_steps |-> arg.enabled_steps,
               steps |-> steps_list(arg.enabled_steps)]
    /\ CallFrame

\* validate_paired_files
ValidatePairedFiles ==
    /\ arg.fn = "validate_paired_files"
    /\ ret' = [op |-> "validate_paired_files", file_list |-> arg.file_list,
               out |-> validate_paired_files(arg.file_list)]
    /\ CallFrame

\* JobMonitor.get_results
GetResults ==
    /\ arg.fn = "get_results"
    /\ ret' = [op |-> "get_results", blobs |-> arg.blobs, nourl |-> arg.nourl,
               out |-> get_results(arg.blobs, arg.nourl)]
    /\ CallFrame

\* JobMonitor.estimate_cost
EstimateCost ==
    /\ arg.fn = "estimate_cost"
    /\ ret' = [op |-> "estimate_cost", machine_type |-> arg.machine_type,
               start_time |-> arg.start_time,
               end_time |-> IF arg.end_given THEN arg.end_time ELSE arg.clock,
               raised |-> FALSE,
               out |-> estimate_cost(arg.machine_type, arg.start_time,
                                     IF arg.end_given THEN arg.end_time
                                     ELSE arg.clock)]
    /\ CallFrame

ArgChoices == ScriptArgs \cup ValidateArgs \cup ResultsArgs \cup CostArgs

InitCalls ==
    /\ cfg = [project |-> TRUE, bucket |-> TRUE]
    /\ client = TRUE
    /\ bucket = TRUE
    /\ now = 0
    /\ current_job_id = NoJob
    /\ current_instance_name = NoJob
    /\ job_start_time = 0
    /\ instances = [n \in InstanceNames |-> Absent]
    /\ script = [n \in InstanceNames |-> <<>>]
    /\ marker = {}
    /\ log = [j \in JobIds |-> NoFile]
    /\ inputs = {}
    /\ localLog = [j \in JobIds |-> NoFile]
    /\ ret = NoRet
    /\ memo = NoMemo
    /\ launches = 0
    /\ remoteSteps = 0
    /\ arg \in ArgChoices
    /\ ran = <<>>

NextCalls ==
    \/ GenerateStartupScript
    \/ ValidatePairedFiles
    \/ GetResults
    \/ EstimateCost

SpecCalls == InitCalls /\ [][NextCalls]_vars

(***************************************************************************)
(* SpecLog: one launched job polled against an arbitrary pipeline log: the *)
(* log object holds any text of a few lines, or the whole log of a run.    *)
(***************************************************************************)
\* config.PIPELINE_STEPS[step]["name"], as words
DisplayName(step) ==
    CASE step = "fastqc"      -> <<"FastQC">>
      [] step = "trimmomatic" -> <<"Trimmomatic">>
      [] step = "megahit"     -> <<"MEGAHIT", "Assembly">>
      [] step = "prodigal"    -> <<"Prodigal">>
      [] step = "hmmscan"     -> <<"HMMscan", "(Pfam)">>
      [] step = "binning"     -> <<"MetaBAT2", "Binning">>
      [] step = "checkm"      -> <<"CheckM", "Quality">>

StartedLine(name) == <<"Running">> \o name
CompletedLine(name) == name \o <<"completed">>

\* a log with "Running <name>" and "<name> completed" for every step, the
\* names being the display names of the catalog
DisplayNameLog ==
    [i \in 1..(2 * Len(StepIds)) |->
        IF i % 2 = 1 THEN StartedLine(DisplayName(StepIds[(i + 1) \div 2]))
        ELSE CompletedLine(DisplayName(StepIds[i \div 2]))]

LogLines ==
    {StartedLine(<<"FastQC">>), CompletedLine(<<"FastQC">>),
     StartedLine(<<"MEGAHIT">>), CompletedLine(<<"MEGAHIT">>),
     <<"Pipeline", "started">>}

MaxLines == 3

LogTexts ==
    UNION {[1..n -> LogLines] : n \in 0..MaxLines}
        \cup {DisplayNameLog, PipelineLines(StepIds)}

InitLog ==
    /\ cfg = [project |-> TRUE, bucket |-> TRUE]
    /\ client = TRUE
    /\ bucket = TRUE
    /\ now = 0
    /\ current_job_id = J0
    /\ current_instance_name = InstanceName(J0)
    /\ job_start_time = 0
    /\ \E st \in {"RUNNING", "TERMINATED"} :
         instances = [n \in InstanceNames |->
                        IF n = InstanceName(J0) THEN st ELSE Absent]
    /\ script = [n \in InstanceNames |->
                   IF n = InstanceName(J0) THEN StepIds ELSE <<>>]
    /\ marker \in {{}, {J0}}
    /\ \E file \in {NoFile} \cup {[exists |-> TRUE, content |-> t] :
                                    t \in LogTexts} :
         log = [j \in JobIds |-> IF j = J0 THEN file ELSE NoFile]
    /\ inputs = {}
    /\ localLog = [j \in JobIds |-> NoFile]
    /\ ret = NoRet
    /\ memo = NoMemo
    /\ launches = 1
    /\ remoteSteps = 0
    /\ arg = NoArg
    /\ ran = <<>>

NextLog == Poll

SpecLog == InitLog /\ [][NextLog]_vars

(***************************************************************************)
(* SpecScript: the startup script generate_startup_script writes, run on   *)
(* the instance of one launched job, command by command. ran holds the     *)
(* commands run so far with their exit status. The caller polls.           *)
(***************************************************************************)
\* the marker written before the results are uploaded
ScriptCommandsMarkerFirst ==
    <<"apt-get update", "apt-get install", "systemctl start docker",
      "systemctl enable docker", "git clone", "docker build", "docker run",
      "docker exec apt-get update", "docker exec apt-get install",
      "mkdir /data", "gsutil cp input_file_1", "gsutil cp input_file_2",
      "docker cp run.sh", "chmod run.sh", "run.sh", "gsutil cp status.txt",
      "gsutil cp results", "shutdown">>

\* the commands of the script that can fail, in the order of its text
ScriptCommands ==
    <<"apt-get update", "apt-get install", "systemctl start docker",
      "systemctl enable docker", "git clone", "docker build", "docker run",
      "docker exec apt-get update", "docker exec apt-get install",
      "mkdir /data", "gsutil cp input_file_1", "gsutil cp input_file_2",
      "docker cp run.sh", "chmod run.sh", "run.sh", "gsutil cp results",
      "gsutil cp status.txt", "shutdown">>

\* line 243: set -e
errexit == TRUE

N0 == InstanceName(J0)

Ran(c, ok) == \E i \in 1..Len(ran) : ran[i].cmd = c /\ ran[i].ok = ok

\* the script is running and has a next command
ScriptAlive ==
    /\ instances[N0] = "RUNNING"
    /\ Len(ran) < Len(ScriptCommands)
    /\ errexit => \A i \in 1..Len(ran) : ran[i].ok

NextCommand == ScriptCommands[Len(ran) + 1]

LogWritten == Len(log[J0].content) = 2 * Len(script[N0])

\* what a command that exits with 0 leaves behind
CommandDone(c) ==
    /\ c = "run.sh" => LogWritten
    /\ marker' = IF c = "gsutil cp status.txt" THEN marker \cup {J0} ELSE marker
    /\ instances' = IF c = "shutdown"
                    THEN [instances EXCEPT ![N0] = "STOPPING"] ELSE instances

ScriptFrame ==
    /\ ret' = NoRet
    /\ UNCHANGED <<cfg, client, bucket, now, current_job_id,
                   current_instance_name, job_start_time, script, inputs,
                   localLog, memo, launches, remoteSteps, arg>>

\* the next command exits with 0
CommandSucceeds ==
    /\ ScriptAlive
    /\ CommandDone(NextCommand)
    /\ ran' = Append(ran, [cmd |-> NextCommand, ok |-> TRUE])
    /\ UNCHANGED log
    /\ ScriptFrame

\* the next command exits with another status; shutdown does not fail
CommandFails ==
    /\ ScriptAlive
    /\ NextCommand # "shutdown"
    /\ ran' = Append(ran, [cmd |-> NextCommand, ok |-> FALSE])
    /\ UNCHANGED <<instances, marker, log>>
    /\ ScriptFrame

\* run.sh appends its next line to jobs/<id>/pipeline.log
PipelineAppends ==
    /\ ScriptAlive
    /\ NextCommand = "run.sh"
    /\ ~LogWritten
    /\ log' = [log EXCEPT ![J0] =
                 [exists |-> TRUE,
                  content |-> Append(@.content,
                                     PipelineLines(script[N0])
                                         [Len(@.content) + 1])]]
    /\ UNCHANGED <<instances, marker, ran>>
    /\ ScriptFrame

\* the gateway boots, preempts and stops the instance
GatewayStep ==
    /\ \/ VmBoot(N0)
       \/ Preempt(N0)
       \/ VmStopped(N0)
    /\ UNCHANGED ran
    /\ ScriptFrame

ScriptStep == CommandSucceeds \/ CommandFails \/ PipelineAppends

NextScript ==
    \/ CommandSucceeds
    \/ CommandFails
    \/ PipelineAppends
    \/ GatewayStep
    \/ Poll

SpecScript == InitLaunched /\ [][NextScript]_vars

\* the gateway brings a created instance up and a stopping instance down; it
\* may preempt a running instance, and need not
GatewayProgress ==
    /\ \/ VmBoot(N0)
       \/ VmStopped(N0)
    /\ UNCHANGED ran
    /\ ScriptFrame

\* a poll all of whose gateway calls are answered
PollAnswered == Poll /\ ret'.obs.failed = {}

\* the script runs on, the gateway does its part and the caller keeps
\* polling, with polls that are answered
SpecScriptFair ==
    /\ SpecScript
    /\ WF_vars(ScriptStep)
    /\ WF_vars(GatewayProgress)
    /\ WF_vars(PollAnswered)

(***************************************************************************)
(* SpecCancel: one launched job, the remote side running, the caller       *)
(* polling and cancelling.                                                 *)
(***************************************************************************)
NextCancel ==
    \/ Poll
    \/ Cancel
    \/ RemoteStep /\ UNCHANGED remoteSteps

SpecCancel == InitLaunched /\ [][NextCancel]_vars

(***************************************************************************)
(* Properties of the functions called directly.                            *)
(***************************************************************************)
CatalogIndex(step) == CHOOSE i \in 1..Len(StepIds) : StepIds[i] = step

\* C11: the --steps list holds exactly the enabled steps of the dictionary
\* passed, each once, in the order of the catalog, whatever the order of the
\* dictionary's entries.
C11_StepsInCatalogOrder ==
    ret.op = "generate_startup_script" =>
        LET d == ret.enabled_steps
            l == ret.steps
        IN  /\ {l[i] : i \in 1..Len(l)}
                   = {d[i].step : i \in {k \in 1..Len(d) : d[k].enabled}}
            /\ \A i, j \in 1..Len(l) :
                   i < j => CatalogIndex(l[i]) < CatalogIndex(l[j])

SameValidation(r1, r2) ==
    /\ r1.ok = r2.ok
    /\ r1.msg = r2.msg
    /\ r1.ok => (r1.forward = r2.forward /\ r1.reverse = r2.reverse)

\* the name carries a mark of the first read, of the second read
CarriesOne(name) ==
    \/ str_in(<<"_", "R", "1">>, name)
    \/ str_in(<<"_", "1">>, name)
    \/ str_in(<<".", "1", ".">>, name)

CarriesTwo(name) ==
    \/ str_in(<<"_", "R", "2">>, name)
    \/ str_in(<<"_", "2">>, name)
    \/ str_in(<<".", "2", ".">>, name)

C13_CountRejected ==
    (ret.op = "validate_paired_files" /\ Len(ret.file_list) # 2) =>
        /\ ~ret.out.ok
        /\ ret.out.forward = None
        /\ ret.out.reverse = None
        /\ ret.out.msg # ""
        /\ ret.out.msg =
               (CASE Len(ret.file_list) = 0 -> "No files selected"
                  [] Len(ret.file_list) = 1 ->
                         "Please select both forward and reverse read files"
                  [] OTHER -> "Please select exactly 2 files")

\* three names, the first two a valid pair, rejected
C13_Witness ==
    /\ ret.op = "validate_paired_files"
    /\ Len(ret.file_list) = 3
    /\ validate_pair(SubSeq(ret.file_list, 1, 2)).ok
    /\ ~ret.out.ok
    /\ ret.out.msg = "Please select exactly 2 files"

\* the rules of the classification in the order of their priority
RuleMatches(k, filename) ==
    LET low == lower(filename)
    IN  CASE k = 1 -> str_in(<<"m", "u", "l", "t", "i", "q", "c">>, low)
          [] k = 2 -> str_in(contigs, low) /\ endswith(filename, <<".", "f", "a">>)
          [] k = 3 -> str_in(<<"p", "f", "a", "m">>, low) \/ str_in(<<"h", "m", "m", "s", "c", "a", "n">>, low)
          [] k = 4 -> str_in(bins, low) \/ str_in(<<"m", "e", "t", "a", "b", "a", "t">>, low)
          [] k = 5 -> str_in(<<"c", "h", "e", "c", "k", "m">>, low)

RuleKey(k) ==
    CASE k = 1 -> multiqc_report
      [] k = 2 -> contigs
      [] k = 3 -> pfam_annotations
      [] k = 4 -> bins
      [] k = 5 -> checkm_report

ExpectedKey(filename) ==
    LET matching == {k \in 1..5 : RuleMatches(k, filename)}
    IN  IF matching = {} THEN filename ELSE RuleKey(Min(matching))

\* C14: every object a URL was made for is stored under the category of the
\* first rule its file name matches, in the order multiqc, contigs ending in
\* .fa, pfam or hmmscan, bins or metabat, checkm, and under its file name
\* when it matches none; nothing else is stored.
C14_FirstRuleWins ==
    ret.op = "get_results" =>
        LET with_url == {i \in 1..Len(ret.blobs) : i \notin ret.nourl}
        IN  /\ {ret.out[j].key : j \in 1..Len(ret.out)}
                   = {ExpectedKey(filename_of(ret.blobs[i])) : i \in with_url}
            /\ \A j \in 1..Len(ret.out) :
                   \E i \in with_url :
                       /\ ret.out[j].url = ret.blobs[i]
                       /\ ret.out[j].key
                              = ExpectedKey(filename_of(ret.blobs[i]))

\* an object matching the contigs rule and the annotation rule, stored as
\* contigs
C14_Witness ==
    /\ ret.op = "get_results"
    /\ Len(ret.blobs) = 1
    /\ RuleMatches(2, filename_of(ret.blobs[1]))
    /\ RuleMatches(3, filename_of(ret.blobs[1]))
    /\ ~RuleMatches(1, filename_of(ret.blobs[1]))
    /\ Len(ret.out) = 1
    /\ ret.out[1].key = contigs

\* the hourly rate in hundredths of a dollar: 0.38 and 0.47 for the two
\* configured machine types, 0.5 for every other
RateOf(machine_type) ==
    CASE machine_type = "n1-standard-16" -> 38
      [] machine_type = "n1-highmem-16" -> 47
      [] OTHER -> 50

\* C15: the estimate is the duration in hours times the rate of the machine
\* type, the default rate for a type not configured, and never an error; it
\* is 0 for an empty duration and additive in the duration.
C15_CostLinear ==
    ret.op = "estimate_cost" =>
        LET d == ret.end_time - ret.start_time
        IN  /\ ~ret.raised
            /\ ret.out.num = d * RateOf(ret.machine_type)
            /\ ret.out.den = 360000
            /\ d = 0 => ret.out.num = 0
            /\ \A e \in 0..MaxSeconds :
                   estimate_cost(ret.machine_type, ret.start_time,
                                 ret.end_time + e).num
                       = ret.out.num
                           + estimate_cost(ret.machine_type, 0, e).num

\* two seconds on a machine type that is not configured
C15_Witness ==
    /\ ret.op = "estimate_cost"
    /\ ret.machine_type = "e2-medium"
    /\ ret.end_time - ret.start_time = 2
    /\ ret.out.num = 100

\* a launch that is assigned a job id while the session holds an earlier one
SecondAllocation ==
    /\ ret'.op = "launch"
    /\ ret'.job_id /= NoJob
    /\ current_job_id /= NoJob

\* C16 as stated: a launch is never assigned the job id, or the instance
\* name, of the launch before it, launches of one second included.
C16_IdsUnique ==
    [][SecondAllocation =>
          /\ ret'.job_id /= current_job_id
          /\ current_instance_name' /= current_instance_name]_vars

\* C16: a launch made in another second than the launch before it, or with
\* another random part, is assigned another job id and another instance name.
C16_IdsUniqueAcrossSeconds ==
    [][(/\ SecondAllocation
        /\ \/ now /= current_job_id[2]
           \/ ret'.job_id[1] /= current_job_id[1]) =>
          /\ ret'.job_id /= current_job_id
          /\ current_instance_name' /= current_instance_name]_vars

\* two launches: the instance of the first, created in another second and
\* with the same random part, runs beside the instance of the second
C16_Witness ==
    /\ ret.op = "launch"
    /\ ret.job_id /= NoJob
    /\ launches = 2
    /\ \E j \in JobIds :
          /\ j[2] /= ret.job_id[2]
          /\ j[1] = ret.job_id[1]
          /\ instances[InstanceName(j)] /= Absent
          /\ instances[InstanceName(ret.job_id)] /= Absent

\* C17: the poll lists the completion marker before every other request, and
\* a poll that found the marker asked the compute gateway for no instance
\* status and neither listed, downloaded nor parsed the pipeline log.
C17_MarkerFirst ==
    Polled /\ ret.calls /= <<>> =>
        /\ ret.calls[1] = "list status.txt"
        /\ ret.obs.marker =>
              /\ ~Issued("instances.get")
              /\ ~Issued("list pipeline.log")
              /\ ~ret.obs.loglisted
              /\ ~ret.obs.downloaded
              /\ ~ret.obs.parsed

\* the tracker's markers of a step, as the log parser looks for them
StartedIn(step, text) ==
    \E k \in 1..Len(text) : LineContains(text[k], step_patterns(step))

CompletedIn(step, text) ==
    \E k \in 1..Len(text) : LineContains(text[k], completion_patterns(step))

\* C18: a parsed log gives an entry for each of the seven steps of the
\* catalog, in its order: pending with progress 0 when the started marker is
\* not in the text, whether or not the completed marker is; running with
\* progress 50 when only the started marker is; complete with progress 100
\* when both are.
C18_StepStates ==
    Polled /\ ret.obs.parsed =>
        /\ Len(ret.out.steps) = 7
        /\ \A i \in 1..Len(StepIds) :
              LET e == ret.out.steps[i]
                  started == StartedIn(StepIds[i], ret.obs.text)
                  completed == CompletedIn(StepIds[i], ret.obs.text)
              IN  /\ e.step = StepIds[i]
                  /\ ~started => e.status = "pending" /\ e.progress = 0
                  /\ started /\ ~completed =>
                         e.status = "running" /\ e.progress = 50
                  /\ started /\ completed =>
                         e.status = "complete" /\ e.progress = 100

\* a log with the completed marker of FastQC and without its started marker,
\* MEGAHIT started and not completed
C18_Witness ==
    /\ Polled
    /\ ret.obs.parsed
    /\ CompletedIn("fastqc", ret.obs.text)
    /\ ~StartedIn("fastqc", ret.obs.text)
    /\ StartedIn("megahit", ret.obs.text)
    /\ ret.out.steps[1].status = "pending"
    /\ ret.out.steps[3].status = "running"

\* the lines "Running <display name>" and "<display name> completed"
DisplayStartedIn(step, text) ==
    \E k \in 1..Len(text) : text[k] = StartedLine(DisplayName(step))

DisplayCompletedIn(step, text) ==
    \E k \in 1..Len(text) : text[k] = CompletedLine(DisplayName(step))

\* C19: for each of the seven steps, a parsed log with the line "Running
\* <display name>" has the step started, one that also has the line
\* "<display name> completed" has it complete, and a log with both lines for
\* all seven display names gives progress 100.
C19_DisplayNameMarkers ==
    Polled /\ ret.obs.parsed =>
        /\ \A i \in 1..Len(StepIds) :
              /\ DisplayStartedIn(StepIds[i], ret.obs.text) =>
                     ret.out.steps[i].status /= "pending"
              /\ (/\ DisplayStartedIn(StepIds[i], ret.obs.text)
                  /\ DisplayCompletedIn(StepIds[i], ret.obs.text)) =>
                     ret.out.steps[i].status = "complete"
        /\ ret.obs.text = DisplayNameLog => ret.out.progress = 100

RunningSteps(steps) == {i \in 1..Len(steps) : steps[i].status = "running"}

\* C20: the current step of a poll is the first step, in the order of the
\* catalog, that the parsed log has running, and none when no step is
\* running: when the log is absent or was not parsed, and when the marker is
\* present.
C20_CurrentStep ==
    Polled =>
        LET steps == ret.out.steps
        IN  /\ RunningSteps(steps) = {} => ret.out.current_step = None
            /\ RunningSteps(steps) /= {} =>
                  \E i \in RunningSteps(steps) :
                      /\ ret.out.current_step = steps[i].step
                      /\ steps[i].step = StepIds[i]
                      /\ \A k \in RunningSteps(steps) : i <= k
            /\ ret.obs.marker \/ ~ret.obs.loglisted =>
                  steps = <<>> /\ ret.out.current_step = None

\* FastQC and MEGAHIT both running: the current step is FastQC
C20_Witness ==
    /\ Polled
    /\ ret.obs.parsed
    /\ Cardinality(RunningSteps(ret.out.steps)) = 2
    /\ ret.out.steps[1].status = "running"
    /\ ret.out.steps[3].status = "running"
    /\ ret.out.current_step = "fastqc"

\* C21: a create operation that the gateway finishes without error before the
\* timeout is seen done at the wait's next poll: create_vm returns the
\* instance name after at most one more sleep, and the wait never lasts
\* longer than the timeout.
C21_WaitObservesCompletion ==
    (ret.op = "launch" /\ ret.vm.accepted) =>
        LET operation == ret.vm.operation
        IN  /\ (~operation.err /\ operation.doneAt < Timeout) =>
                  /\ ret.vm.val = InstanceName(ret.job_id)
                  /\ ret.vm.waited <= operation.doneAt + SleepSeconds
            /\ ret.vm.waited <= Timeout

\* the commands the claim orders
OrderedCommands ==
    <<"gsutil cp input_file_1", "gsutil cp input_file_2", "run.sh",
      "gsutil cp results", "gsutil cp status.txt", "shutdown">>

\* C22: the script runs its commands in the order of its text: both inputs
\* are copied, then the pipeline runs, then the results are uploaded, then
\* the marker is written, then the instance is powered off, each only after
\* the one before it has run; the marker is in the object store only when
\* the pipeline and the upload of the results have both succeeded.
C22_ScriptOrder ==
    /\ \A i \in 1..Len(ran) : ran[i].cmd = ScriptCommands[i]
    /\ \A k \in 2..Len(OrderedCommands) :
          (\E ok \in BOOLEAN : Ran(OrderedCommands[k], ok)) =>
              \E ok \in BOOLEAN : Ran(OrderedCommands[k - 1], ok)
    /\ (\E ok \in BOOLEAN : Ran("gsutil cp status.txt", ok)) =>
          /\ Ran("gsutil cp input_file_1", TRUE)
          /\ Ran("gsutil cp input_file_2", TRUE)
          /\ Ran("run.sh", TRUE)
          /\ Ran("gsutil cp results", TRUE)
    /\ J0 \in marker <=> Ran("gsutil cp status.txt", TRUE)
    /\ Ran("shutdown", TRUE) => J0 \in marker

\* the script has run to its end: the marker is written and the instance is
\* stopping
C22_Witness ==
    /\ Ran("run.sh", TRUE)
    /\ Ran("gsutil cp results", TRUE)
    /\ J0 \in marker
    /\ Ran("shutdown", TRUE)
    /\ instances[N0] = "STOPPING"

\* rule 1 of the claim: without the sequence-file suffixes, x ends in _R1 or
\* _1 and y in _R2 or _2, with equal text before the last '_'
SuffixRule(x, y) ==
    LET bx == strip_extensions(x)
        by == strip_extensions(y)
    IN  /\ endswith(bx, <<"_", "R", "1">>) \/ endswith(bx, <<"_", "1">>)
        /\ endswith(by, <<"_", "R", "2">>) \/ endswith(by, <<"_", "2">>)
        /\ rsplit_first(bx, <<"_">>) = rsplit_first(by, <<"_">>)

\* rules 2 and 3 of the claim: x contains m1 and y contains m2, with equal
\* text before them
InfixRule(x, y, m1, m2) ==
    /\ str_in(m1, x)
    /\ str_in(m2, y)
    /\ split_first(x, m1) = split_first(y, m2)

SomeRuleMatches(x, y) ==
    \/ SuffixRule(x, y)
    \/ InfixRule(x, y, <<"_", "1", ".">>, <<"_", "2", ".">>)
    \/ InfixRule(x, y, <<".", "1", ".">>, <<".", "2", ".">>)

\* C23: a list of two names is accepted exactly when one of the three rules
\* matches the two names with a common prefix, one name carrying the mark of
\* the forward reads and the other the mark of the reverse reads; otherwise it
\* is rejected with the reason that names the conventions.
C23_AcceptsExactlyOnRule ==
    (ret.op = "validate_paired_files" /\ Len(ret.file_list) = 2) =>
        LET a == ret.file_list[1]
            b == ret.file_list[2]
        IN  /\ ret.out.ok <=> (SomeRuleMatches(a, b) \/ SomeRuleMatches(b, a))
            /\ ~ret.out.ok =>
                  ret.out.msg = "Selected files do not appear to be paired reads"

Rank(status) ==
    CASE status = "pending" -> 0
      [] status = "running" -> 1
      [] status = "complete" -> 2

\* no step that both polls report has moved backwards, and the progress has
\* not decreased
NotBackwards(earlier, later) ==
    /\ \A i \in 1..Len(earlier.steps) :
          i <= Len(later.steps) =>
              /\ later.steps[i].step = earlier.steps[i].step
              /\ Rank(earlier.steps[i].status) <= Rank(later.steps[i].status)
    /\ earlier.progress <= later.progress

\* the answers of a poll none of whose gateway calls failed and whose local
\* copy of the log was read: they are the remote state
Faithful(answers, env) ==
    /\ answers.vm = env.vm
    /\ answers.marker = env.marker
    /\ ~env.marker =>
          /\ answers.parsed = env.text.exists
          /\ answers.parsed => answers.text = env.text.content

C25_FailedLaunchKeepsRecord ==
    [][(ret'.op = "launch" /\ ~ret'.ok) =>
          UNCHANGED <<current_job_id, current_instance_name,
                      job_start_time>>]_vars

\* C26: every instance that exists at the compute gateway is the instance
\* the session names in current_instance_name.
C26_InstancesReachable ==
    \A n \in InstanceNames :
        instances[n] # Absent => n = current_instance_name

\* C27: under repeated polling a launched job eventually gets a poll that is
\* answered with the status complete or failed.
C27_EventuallyTerminal ==
    <>(Polled /\ ret.obs.failed = {} /\ ret.out.status \in {"complete", "failed"})

CallIndexes(call) == {i \in 1..Len(ret.calls) : ret.calls[i] = call}

\* C28: a launch issues at most one create call; in upload mode it issues
\* the create call only after both uploads, and only when both input objects
\* of the job were stored.
C28_CreateAfterUploads ==
    ret.op = "launch" =>
        /\ Cardinality(CallIndexes("instances.insert")) <= 1
        /\ (ret.input_method = "upload" /\ Issued("instances.insert")) =>
              /\ \A u \in {"upload CV_1.fq.gz", "upload CV_2.fq.gz"} :
                    \E i \in CallIndexes(u) :
                        \A k \in CallIndexes("instances.insert") : i < k
              /\ ret.stored = {<<"inputs", ret.job_id, "CV_1.fq.gz">>,
                               <<"inputs", ret.job_id, "CV_2.fq.gz">>}
        /\ (ret.input_method = "upload" /\ Cardinality(ret.stored) < 2) =>
              /\ ~Issued("instances.insert")
              /\ ~ret.vm.accepted
              /\ ~ret.ok

\* the first input stored, the upload of the second failed: no create call
C28_Witness ==
    /\ ret.op = "launch"
    /\ ret.input_method = "upload"
    /\ client
    /\ ret.calls = <<"upload CV_1.fq.gz", "upload CV_2.fq.gz">>
    /\ ret.stored = {<<"inputs", ret.job_id, "CV_1.fq.gz">>}
    /\ ~ret.ok

ListingOrders(n) ==
    {p \in [1..n -> 1..n] : \A i, j \in 1..n : i # j => p[i] # p[j]}

\* a dictionary as the set of its entries
AsMapping(dict) == {dict[i] : i \in 1..Len(dict)}

\* C29: get_results returns the same mapping from keys to URLs for every
\* order in which the objects under results/<job_id>/ are listed.
C29_ListingOrderIrrelevant ==
    ret.op = "get_results" =>
        \A p \in ListingOrders(Len(ret.blobs)) :
            AsMapping(get_results([i \in 1..Len(ret.blobs) |-> ret.blobs[p[i]]],
                                  {i \in 1..Len(ret.blobs) : p[i] \in ret.nourl}))
                = AsMapping(ret.out)

\* C30: the status of every poll is one of unknown, starting, running,
\* complete, failed, error, never pending or cancelled, and its progress is
\* an integer from 0 to 100, also after a cancel that succeeded.
C30_StatusRange ==
    Polled =>
        /\ ret.out.status \in
               {"unknown", "starting", "running", "complete", "failed", "error"}
        /\ ret.out.status \in Statuses \ {"pending", "cancelled"}
        /\ ret.out.progress \in 0..100

\* a poll after a cancel that deleted the instance: the instance is not
\* found and the status is unknown
C30_Witness ==
    /\ Polled
    /\ instances[InstanceName(ret.job_id)] = Absent
    /\ ret.obs.failed = {}
    /\ ret.out.vm_status = "not_found"
    /\ ret.out.status = "unknown"

====
